---- MODULE Spec2Model ----
(***************************************************************************)
(* A model of pydargparse: field metadata (models.Argument), schema        *)
(* instances (models.AppArguments), the sub-schema registry                *)
(* (decorators.register_sub_args), post validators                         *)
(* (decorators.post_validator) and parse.parse_args.                       *)
(*                                                                         *)
(* Python values are records [t, i, s]: t the type name, i the integer     *)
(* payload (floats in tenths, bool as 0/1) and s the string payload.       *)
(* Python's attribute lookup and its exceptions are modelled by what the   *)
(* interpreter does: an exception is an outcome [kind |-> "raise", ...].   *)
(***************************************************************************)
EXTENDS Integers, Sequences, FiniteSets, TLC

\* ------------------------------------------------------------------------
\* Bounds of the model
\* ------------------------------------------------------------------------
\* How many schema classes of the table below are declared at a time.
MaxDeclared == 1
\* How many instances exist at a time.
MaxInstances == 1

\* ------------------------------------------------------------------------
\* Python values
\* ------------------------------------------------------------------------
PyNone == [t |-> "NoneType", i |-> 0, s |-> ""]
\* models.py:5-6, the sentinel class "no default was declared"
Undefined == [t |-> "type", i |-> 0, s |-> "Undefined"]
PyInt(n) == [t |-> "int", i |-> n, s |-> ""]
\* a float, in tenths: PyFloat(12) is 1.2
PyFloat(n) == [t |-> "float", i |-> n, s |-> ""]
PyStr(str) == [t |-> "str", i |-> 0, s |-> str]
PyBool(b) == [t |-> "bool", i |-> IF b THEN 1 ELSE 0, s |-> ""]
PyTrue == PyBool(TRUE)
PyFalse == PyBool(FALSE)
\* a function object, by its name
PyFunc(name) == [t |-> "function", i |-> 0, s |-> name]
\* a class object, by its name
PyType(name) == [t |-> "type", i |-> 0, s |-> name]

\* Python's truth value of an object (bool(x))
Truthy(val) ==
    CASE val.t = "NoneType" -> FALSE
      [] val.t \in {"int", "float", "bool"} -> val.i # 0
      [] val.t = "str" -> val.s # ""
      [] OTHER -> TRUE

\* Outcomes of a call
Returned(val) == [kind |-> "return", value |-> val]
Raised(exc, msg) == [kind |-> "raise", exc |-> exc, msg |-> msg]

\* ------------------------------------------------------------------------
\* models.ListStyle
\* ------------------------------------------------------------------------
REPEAT_KEY == "repeat_key"
REPEAT_VALUE == "repeat_value"
ListStyle == {REPEAT_KEY, REPEAT_VALUE}

\* ------------------------------------------------------------------------
\* models.Argument.__init__
\* ------------------------------------------------------------------------
\* The keyword arguments of Argument(...), with the defaults of its signature.
ArgumentDefaults ==
    [alias |-> PyNone, default |-> Undefined, default_factory |-> PyNone,
     custom_type |-> PyNone, post_validator |-> PyNone, required |-> PyNone,
     help_ |-> PyNone, metavar |-> PyNone, list_style |-> REPEAT_KEY,
     custom_type_requires_list |-> PyFalse]

\* Argument(**kw) with "no default" tested against None instead of the
\* Undefined sentinel.
ArgumentInit_DefaultIsNone(kw) ==
    IF kw.default # PyNone /\ kw.default_factory # PyNone
    THEN Raised("ValueError", "Cannot use both 'default' and 'default_factory' for the same field")
    ELSE IF kw.required = PyFalse /\ (kw.default # PyNone \/ kw.default_factory # PyNone)
    THEN Raised("ValueError", "Cannot use 'required=False' when default value exists")
    ELSE IF Truthy(kw.custom_type_requires_list) /\ kw.custom_type = PyNone
    THEN Raised("ValueError", "Cannot use 'custom_type_requires_list' without 'custom_type'")
    ELSE Returned([alias |-> kw.alias, default |-> kw.default,
                   default_factory |-> kw.default_factory,
                   custom_type |-> kw.custom_type,
                   post_validator |-> kw.post_validator,
                   required |-> kw.required, help |-> kw.help_,
                   metavar |-> kw.metavar, list_style |-> kw.list_style,
                   custom_type_requires_list |-> kw.custom_type_requires_list])

\* Argument(**kw): the checks in the order the constructor makes them; the
\* result is the constructed object or the ValueError of the first check that
\* fails.
ArgumentInit(kw) ==
    IF kw.default # Undefined /\ kw.default_factory # PyNone
    THEN Raised("ValueError", "Cannot use both 'default' and 'default_factory' for the same field")
    ELSE IF kw.required = PyFalse /\ (kw.default # Undefined \/ kw.default_factory # PyNone)
    THEN Raised("ValueError", "Cannot use 'required=False' when default value exists")
    ELSE IF Truthy(kw.custom_type_requires_list) /\ kw.custom_type = PyNone
    THEN Raised("ValueError", "Cannot use 'custom_type_requires_list' without 'custom_type'")
    ELSE Returned([alias |-> kw.alias, default |-> kw.default,
                   default_factory |-> kw.default_factory,
                   custom_type |-> kw.custom_type,
                   post_validator |-> kw.post_validator,
                   required |-> kw.required, help |-> kw.help_,
                   metavar |-> kw.metavar, list_style |-> kw.list_style,
                   custom_type_requires_list |-> kw.custom_type_requires_list])

\* The keyword arguments a caller passes to Argument(...).
ArgumentInputs ==
    [alias : {PyNone, PyStr("alias_arg")},
     default : {Undefined, PyNone, PyStr("some string")},
     default_factory : {PyNone, PyType("list")},
     custom_type : {PyNone, PyFunc("custom_fail_validator")},
     post_validator : {PyNone, PyFunc("custom_change_validator")},
     required : {PyNone, PyTrue, PyFalse},
     help_ : {PyNone},
     metavar : {PyNone},
     list_style : ListStyle,
     custom_type_requires_list : {PyFalse, PyTrue}]

\* ------------------------------------------------------------------------
\* The functions the schemas of the tests use as converters and validators
\* ------------------------------------------------------------------------
\* repr() of the values the validators format into their messages
Repr(val) ==
    CASE val = PyInt(1) -> "1"
      [] val = PyInt(2) -> "2"
      [] val = PyInt(10) -> "10"
      [] val = PyInt(20) -> "20"
      [] val = PyFloat(10) -> "1.0"
      [] val = PyFloat(12) -> "1.2"
      [] val = PyFloat(23) -> "2.3"
      [] val.t = "str" -> "'" \o val.s \o "'"
      [] val.t = "NoneType" -> "None"
      [] OTHER -> "<" \o val.t \o ">"

\* The number of positional parameters each function declares: the free
\* functions take the value, the methods of a schema class take self and the
\* value.
FuncParams ==
    [custom_change_validator |-> 1, custom_fail_validator |-> 1,
     validate_change |-> 2, validate_fail |-> 2]
FuncNames == DOMAIN FuncParams

\* Calling function f with the positional arguments args.
CallFunc(f, args) ==
    IF Len(args) # FuncParams[f]
    THEN Raised("TypeError", f \o "() missing required positional argument")
    ELSE LET val == args[Len(args)] IN
         IF f \in {"custom_change_validator", "validate_change"}
         THEN IF val.t \in {"int", "float", "bool"}
              THEN Returned([val EXCEPT !.t = IF val.t = "float" THEN "float" ELSE "int",
                                        !.i = IF val.t = "float" THEN val.i + 10 ELSE val.i + 1])
              ELSE Raised("TypeError", "unsupported operand type(s) for +")
         ELSE Raised("ValueError", "Value " \o Repr(val) \o " is wrong")

\* ------------------------------------------------------------------------
\* decorators._PostValidator and decorators.post_validator
\* ------------------------------------------------------------------------
\* _PostValidator(fields, val_f): fields is one name or a list of names, kept
\* as given.
PostValidatorInit(fields, val_f) == [fields |-> fields, val_f |-> val_f]

\* post_validator(fields)(external)
post_validator(fields, external) == PostValidatorInit(fields, external)

\* _PostValidator.validate(value): the wrapped function called with the value
\* alone.
validate(pv, value) == CallFunc(pv.val_f, <<value>>)

\* ------------------------------------------------------------------------
\* The schema classes the tests declare
\* ------------------------------------------------------------------------
\* An annotation: its container shape, its element type, Optional[...] or
\* not, the legacy typing spelling (List[...], Set[...]) or not, and for a
\* union of command variants the variant classes.
Ann(shape, elem, optional) ==
    [shape |-> shape, elem |-> elem, optional |-> optional, legacy |-> FALSE,
     variants |-> <<>>]
Legacy(ann) == [ann EXCEPT !.legacy = TRUE]
Commands(variants, optional) ==
    [shape |-> "commands", elem |-> "", optional |-> optional, legacy |-> FALSE,
     variants |-> variants]

\* A field declared by a bare annotation, and one declared "= Argument(...)"
Bare(name, ann) == [name |-> name, ann |-> ann, meta |-> FALSE, kw |-> ArgumentDefaults]
WithMeta(name, ann, kw) == [name |-> name, ann |-> ann, meta |-> TRUE, kw |-> kw]

\* A class body: its base, its __command__ ("" when it has none), its fields
\* in declaration order, its @post_validator methods, its Config block (the
\* settings it defines) and the classes declared along with it.
Class(base, command, fields, validators, config, nested) ==
    [base |-> base, command |-> command, fields |-> fields,
     validators |-> validators, config |-> config, nested |-> nested]
NoConfig == [has |-> FALSE, attrs |-> <<>>]
Config(attrs) == [has |-> TRUE, attrs |-> attrs]
OneField(f) == Class("AppArguments", "", <<f>>, <<>>, NoConfig, {})

\* The class body of class c
ClassDecl(c) ==
    CASE c = "ArgsInt" -> OneField(Bare("test_arg", Ann("scalar", "int", FALSE)))
      [] c = "ArgsStr" -> OneField(Bare("test_arg", Ann("scalar", "str", FALSE)))
      [] c = "ArgsFloat" -> OneField(Bare("test_arg", Ann("scalar", "float", FALSE)))
      [] c = "ArgsBool" -> OneField(Bare("test_arg", Ann("scalar", "bool", FALSE)))
      [] c = "ArgsOptInt" -> OneField(Bare("test_arg", Ann("scalar", "int", TRUE)))
      [] c = "ArgsListInt" -> OneField(Bare("test_arg", Ann("list", "int", FALSE)))
      [] c = "ArgsLegacyListInt" -> OneField(Bare("test_arg", Legacy(Ann("list", "int", FALSE))))
      [] c = "ArgsListStr" -> OneField(Bare("test_arg", Ann("list", "str", FALSE)))
      [] c = "ArgsSetInt" -> OneField(Bare("test_arg", Ann("set", "int", FALSE)))
      [] c = "ArgsLegacySetInt" -> OneField(Bare("test_arg", Legacy(Ann("set", "int", FALSE))))
      [] c = "ArgsListRequired" ->
        OneField(WithMeta("test_arg", Ann("list", "str", FALSE),
                          [ArgumentDefaults EXCEPT !.required = PyTrue]))
      [] c = "ArgsSetRequired" ->
        OneField(WithMeta("test_arg", Ann("set", "str", FALSE),
                          [ArgumentDefaults EXCEPT !.required = PyTrue]))
      [] c = "ArgsListRepeatValue" ->
        OneField(WithMeta("test_arg", Ann("list", "str", FALSE),
                          [ArgumentDefaults EXCEPT !.list_style = REPEAT_VALUE]))
      [] c = "ArgsCustomList" ->
        OneField(WithMeta("test_arg", Ann("list", "CustomType", FALSE),
                          [ArgumentDefaults EXCEPT !.custom_type_requires_list = PyTrue]))
      [] c = "ArgsCustomListRepeatValue" ->
        OneField(WithMeta("test_arg", Ann("list", "CustomType", FALSE),
                          [ArgumentDefaults EXCEPT !.custom_type_requires_list = PyTrue,
                                                   !.list_style = REPEAT_VALUE]))
      [] c = "ArgsCustomListRequired" ->
        OneField(WithMeta("test_arg", Ann("list", "CustomType", FALSE),
                          [ArgumentDefaults EXCEPT !.custom_type_requires_list = PyTrue,
                                                   !.required = PyTrue]))
      [] c = "ArgsPostChange" ->
        OneField(WithMeta("test_arg", Ann("scalar", "int", FALSE),
                          [ArgumentDefaults EXCEPT !.post_validator = PyFunc("custom_change_validator")]))
      [] c = "ArgsPostFail" ->
        OneField(WithMeta("test_arg", Ann("scalar", "float", FALSE),
                          [ArgumentDefaults EXCEPT !.post_validator = PyFunc("custom_fail_validator")]))
      [] c = "ArgsDecoChange" ->
        Class("AppArguments", "", <<Bare("test_arg", Ann("scalar", "int", FALSE))>>,
              <<[name |-> "validate", fields |-> PyStr("test_arg"), func |-> "validate_change"]>>,
              NoConfig, {})
      [] c = "ArgsDecoFail" ->
        Class("AppArguments", "", <<Bare("test_arg", Ann("scalar", "float", FALSE))>>,
              <<[name |-> "validate", fields |-> PyStr("test_arg"), func |-> "validate_fail"]>>,
              NoConfig, {})
      [] c = "ArgsAlias" ->
        OneField(WithMeta("test_arg", Ann("scalar", "str", FALSE),
                          [ArgumentDefaults EXCEPT !.alias = PyStr("alias_arg")]))
      [] c = "ArgsDefaultVal" ->
        OneField(WithMeta("test_arg", Ann("scalar", "str", FALSE),
                          [ArgumentDefaults EXCEPT !.default = PyStr("some string")]))
      [] c = "ArgsDefaultFactory" ->
        OneField(WithMeta("test_arg", Ann("list", "str", FALSE),
                          [ArgumentDefaults EXCEPT !.default_factory = PyType("list")]))
      [] c = "ArgsRequiredOpt" ->
        OneField(WithMeta("test_arg", Ann("scalar", "int", TRUE),
                          [ArgumentDefaults EXCEPT !.required = PyTrue]))
      [] c = "SubCommand1" ->
        Class("SubCommandArguments", "command1",
              <<Bare("subcommand1_arg", Ann("scalar", "int", FALSE))>>, <<>>, NoConfig, {})
      [] c = "SubCommand2" ->
        Class("SubCommandArguments", "command2",
              <<Bare("subcommand2_arg", Ann("scalar", "int", FALSE))>>, <<>>, NoConfig, {})
      [] c = "ArgsCmdOptional" ->
        Class("AppArguments", "",
              <<Bare("command_arg", Ann("scalar", "int", FALSE)),
                Bare("subcommand", Commands(<<"SubCommand1", "SubCommand2">>, TRUE))>>,
              <<>>, NoConfig, {"SubCommand1", "SubCommand2"})
      [] c = "ArgsCmdRequired" ->
        Class("AppArguments", "",
              <<Bare("command_arg", Ann("scalar", "int", FALSE)),
                Bare("subcommand", Commands(<<"SubCommand1", "SubCommand2">>, FALSE))>>,
              <<>>, NoConfig, {"SubCommand1", "SubCommand2"})
      [] c = "SubArgs" -> OneField(Bare("test_sub_arg", Ann("scalar", "str", FALSE)))
      [] c = "ArgsImperative" ->
        Class("AppArguments", "", <<Bare("test_arg", Ann("scalar", "str", FALSE))>>,
              <<>>, NoConfig, {"SubArgs"})
      [] c = "ArgsConfigProg" ->
        Class("AppArguments", "", <<Bare("test_arg", Ann("scalar", "int", FALSE))>>,
              <<>>, Config([prog |-> PyStr("app"), description |-> PyStr("An app")]), {})
      [] c = "ArgsConfigNoHelp" ->
        Class("AppArguments", "", <<Bare("test_arg", Ann("scalar", "int", FALSE))>>,
              <<>>, Config([add_help |-> PyFalse, allow_abbrev |-> PyFalse]), {})

ClassNames ==
    {"ArgsInt", "ArgsStr", "ArgsFloat", "ArgsBool",
     "ArgsOptInt", "ArgsListInt", "ArgsLegacyListInt", "ArgsListStr",
     "ArgsSetInt", "ArgsLegacySetInt", "ArgsListRequired", "ArgsSetRequired",
     "ArgsListRepeatValue", "ArgsCustomList", "ArgsCustomListRepeatValue",
     "ArgsCustomListRequired", "ArgsPostChange", "ArgsPostFail",
     "ArgsDecoChange", "ArgsDecoFail", "ArgsAlias", "ArgsDefaultVal",
     "ArgsDefaultFactory", "ArgsRequiredOpt", "SubCommand1", "SubCommand2",
     "ArgsCmdOptional", "ArgsCmdRequired", "SubArgs", "ArgsImperative",
     "ArgsConfigProg", "ArgsConfigNoHelp"}
\* The classes a test declares on their own (the others are declared along
\* with the class that names them).
TopLevel == ClassNames \ {"SubCommand1", "SubCommand2", "SubArgs"}
\* The classes declared by the class body of c and the bodies it comes with
Group(c) == {c} \cup ClassDecl(c).nested

Range(seq) == {seq[k] : k \in DOMAIN seq}
FieldNames(c) == {ClassDecl(c).fields[k].name : k \in DOMAIN ClassDecl(c).fields}
Field(c, name) ==
    ClassDecl(c).fields[CHOOSE k \in DOMAIN ClassDecl(c).fields :
                            ClassDecl(c).fields[k].name = name]
\* The fields declared with Argument(...) metadata
MetaFieldNames(c) == {n \in FieldNames(c) : Field(c, n).meta}

\* ------------------------------------------------------------------------
\* State
\* ------------------------------------------------------------------------
VARIABLES
    \* the top-level schema classes declared so far (each with its group)
    declared,
    \* the Argument objects in the class bodies of the declared classes, by
    \* <<class, attribute name>>: the constructed object and the _name that
    \* __set_name__ gave it
    descriptors,
    \* the class attribute _pydargparse_sub_args: for each class that has it,
    \* the list of _SubArgsDefinition objects it holds
    subArgsAttr,
    \* the live instances: their class and their __dict__
    instances,
    \* the last call made: the operation, its inputs and its outcome
    last

vars == <<declared, descriptors, subArgsAttr, instances, last>>

\* The library's own classes
LibraryClasses == {"AppArguments", "SubCommandArguments"}
AllClasses == ClassNames \cup LibraryClasses

\* The method resolution order of a class, without object
Mro(c) ==
    IF c = "AppArguments" THEN <<c>>
    ELSE IF c = "SubCommandArguments" THEN <<c, "AppArguments">>
    ELSE IF ClassDecl(c).base = "SubCommandArguments"
         THEN <<c, "SubCommandArguments", "AppArguments">>
         ELSE <<c, "AppArguments">>

DeclaredClasses == UNION {Group(c) : c \in declared}

\* repr() of a class object
ClassRepr(c) == "<class '" \o c \o "'>"

\* ------------------------------------------------------------------------
\* models.Argument: the descriptor protocol
\* ------------------------------------------------------------------------
\* Argument.__set_name__(owner, name)
SetName(obj, owner, name) == [arg |-> obj, name |-> name]

\* getattr(instance, "_pydargparse_args"): the instance's __dict__, then the
\* classes of its type. AppArguments only annotates the name, so no class
\* has it.
GetArgsMapping(inst) ==
    IF "_pydargparse_args" \in DOMAIN inst.dict
    THEN Returned(inst.dict["_pydargparse_args"])
    ELSE Raised("AttributeError",
                "'" \o inst.cls \o "' object has no attribute '_pydargparse_args'")

\* Argument.__get__(instance, owner)
ArgumentGet(desc, inst) ==
    LET mapping == GetArgsMapping(inst) IN
    IF mapping.kind = "raise" THEN mapping
    ELSE IF desc.name \in DOMAIN mapping.value
         THEN Returned(mapping.value[desc.name])
         ELSE Raised("KeyError", desc.name)

\* Argument.__set__(instance, value)
ArgumentSet(desc, inst, value) ==
    Raised("TypeError", "Argument attributes are immutable")

\* The attribute `name` of the class body of c is a data descriptor: the
\* fields declared with Argument(...). A bare annotation leaves no attribute
\* on the class.
IsDescriptor(c, name) == name \in MetaFieldNames(c)

\* instance.name, for a field name: the descriptor's __get__ if the class
\* has one, else the instance's __dict__, else AttributeError.
GetAttr(inst, name) ==
    IF IsDescriptor(inst.cls, name)
    THEN ArgumentGet(descriptors[<<inst.cls, name>>], inst)
    ELSE IF name \in DOMAIN inst.dict
         THEN Returned(inst.dict[name])
         ELSE Raised("AttributeError",
                     "'" \o inst.cls \o "' object has no attribute '" \o name \o "'")

\* instance.name = value: the outcome and the instance afterwards
SetAttr(inst, name, value) ==
    IF IsDescriptor(inst.cls, name)
    THEN [out |-> ArgumentSet(descriptors[<<inst.cls, name>>], inst, value),
          inst |-> inst]
    ELSE [out |-> Returned(PyNone),
          inst |-> [inst EXCEPT !.dict = (name :> value) @@ inst.dict]]

\* ------------------------------------------------------------------------
\* models.AppArguments
\* ------------------------------------------------------------------------
\* The class that holds _pydargparse_sub_args for class c: the first class of
\* the method resolution order that has the attribute, "" if none has.
SubArgsOwner(c) ==
    LET mro == Mro(c)
        has == {k \in DOMAIN mro : mro[k] \in DOMAIN subArgsAttr}
    IN IF has = {} THEN ""
       ELSE mro[CHOOSE k \in has : \A j \in has : k <= j]

\* self._pydargparse_sub_args: the instance's __dict__ (a mapping from
\* sub-schema type to sub-instance), then the class attribute (the list that
\* register_sub_args appends to).
GetSubArgsAttr(inst) ==
    IF "_pydargparse_sub_args" \in DOMAIN inst.dict
    THEN Returned([mapping |-> TRUE, value |-> inst.dict["_pydargparse_sub_args"]])
    ELSE IF SubArgsOwner(inst.cls) # ""
         THEN Returned([mapping |-> FALSE,
                        value |-> subArgsAttr[SubArgsOwner(inst.cls)]])
         ELSE Raised("AttributeError",
                     "'" \o inst.cls \o "' object has no attribute '_pydargparse_sub_args'")

\* AppArguments.pydargparse_get_sub_args(sub_args_type): only the KeyError of
\* the subscript is turned into the ValueError.
pydargparse_get_sub_args(inst, sub_args_type) ==
    LET attr == GetSubArgsAttr(inst) IN
    IF attr.kind = "raise" THEN attr
    ELSE IF ~attr.value.mapping
         THEN Raised("TypeError", "list indices must be integers or slices, not type")
         ELSE IF sub_args_type \in DOMAIN attr.value.value
              THEN Returned(attr.value.value[sub_args_type])
              ELSE Raised("ValueError",
                          "Sub arguments type " \o ClassRepr(sub_args_type)
                              \o " wasn't registered in " \o ClassRepr(inst.cls))

\* ------------------------------------------------------------------------
\* decorators._SubArgsDefinition and decorators.register_sub_args
\* ------------------------------------------------------------------------
SubArgsDefinition(sub_args, prefix) == [sub_args |-> sub_args, prefix |-> prefix]

\* register_sub_args(args, sub_args, prefix): getattr on the class, then
\* append to the list found. The outcome and the class attributes afterwards.
register_sub_args(args, sub_args, prefix) ==
    LET owner == SubArgsOwner(args) IN
    IF owner = ""
    THEN [out |-> Raised("AttributeError",
                         "type object '" \o args
                             \o "' has no attribute '_pydargparse_sub_args'"),
          attrs |-> subArgsAttr]
    ELSE [out |-> Returned(PyNone),
          attrs |-> [subArgsAttr EXCEPT ![owner] =
                        Append(@, SubArgsDefinition(sub_args, prefix))]]

\* ------------------------------------------------------------------------
\* parse._get_default_args, parse._resolve_config
\* ------------------------------------------------------------------------
\* The parser-level settings parse_args resolves, in the order it does
ConfigNames ==
    <<"prog", "usage", "description", "epilog", "formatter_class",
      "prefix_chars", "fromfile_prefix_chars", "add_help", "allow_abbrev",
      "exit_on_error">>

\* _get_default_args(argparse.ArgumentParser.__init__): the parameters of the
\* constructor that have a default, with that default.
GetDefaultArgs ==
    [prog |-> PyNone, usage |-> PyNone, description |-> PyNone,
     epilog |-> PyNone, parents |-> [t |-> "list", i |-> 0, s |-> ""],
     formatter_class |-> PyType("HelpFormatter"),
     prefix_chars |-> PyStr("-"), fromfile_prefix_chars |-> PyNone,
     argument_default |-> PyNone, conflict_handler |-> PyStr("error"),
     add_help |-> PyTrue, allow_abbrev |-> PyTrue, exit_on_error |-> PyTrue]

\* getattr(arguments, "Config", None) of every schema class
ClassConfig == [c \in ClassNames |-> ClassDecl(c).config]

\* _resolve_config without the hasattr test: a Config block that does not
\* define the setting is asked for it all the same.
ResolveConfig_NoHasattr(arguments, arg_name, default_values) ==
    LET config == ClassConfig[arguments] IN
    IF ~config.has
    THEN IF arg_name \in DOMAIN default_values
         THEN Returned(default_values[arg_name])
         ELSE Raised("KeyError", arg_name)
    ELSE IF arg_name \in DOMAIN config.attrs
         THEN Returned(config.attrs[arg_name])
         ELSE Raised("AttributeError",
                     "type object 'Config' has no attribute '" \o arg_name \o "'")

\* _resolve_config(arguments, arg_name, default_values)
ResolveConfig(arguments, arg_name, default_values) ==
    LET config == ClassConfig[arguments] IN
    IF ~config.has \/ arg_name \notin DOMAIN config.attrs
    THEN IF arg_name \in DOMAIN default_values
         THEN Returned(default_values[arg_name])
         ELSE Raised("KeyError", arg_name)
    ELSE Returned(config.attrs[arg_name])

\* ------------------------------------------------------------------------
\* The external parser, as far as parse_args uses it
\* ------------------------------------------------------------------------
\* SystemExit(code) after the error `error` about the flags or tokens `names`
\* was written to stderr
Exited(code, error, names) ==
    [kind |-> "exit", code |-> code, error |-> error, names |-> names]

\* argparse.ArgumentParser(**settings): the settings and the option strings
\* registered so far; add_help registers the help flag.
ArgumentParserInit(settings) ==
    [settings |-> settings,
     options |-> IF Truthy(settings["add_help"]) THEN {"-h", "--help"} ELSE {}]

\* parser.add_argument(*name_or_flags, **kwargs): without a name and without
\* dest the call itself is a TypeError.
AddArgument(parser, name_or_flags, kwargs) ==
    IF name_or_flags = <<>> /\ "dest" \notin DOMAIN kwargs
    THEN Raised("TypeError",
                "_get_positional_kwargs() missing 1 required positional argument: 'dest'")
    ELSE Returned([parser EXCEPT !.options = @ \cup Range(name_or_flags)])

\* parser.parse_args(args=args) of a parser that has at most the help flag:
\* help prints and exits, any other token is unrecognized.
ParserParseArgs(parser, args) ==
    IF \E k \in DOMAIN args : args[k] \in {"-h", "--help"} \cap parser.options
    THEN Exited(0, "", <<>>)
    ELSE IF args # <<>>
         THEN Exited(2, "unrecognized arguments", args)
         ELSE Returned(<<>>)

\* ------------------------------------------------------------------------
\* parse.parse_args
\* ------------------------------------------------------------------------
\* arg_type(): AppArguments defines no __init__, the new instance has an
\* empty __dict__.
NewInstance(arg_type) == [cls |-> arg_type, dict |-> <<>>]

\* The calls _resolve_config(arg_type, n, default_args) of parse_args, for
\* every schema class and every setting n of the constructor call
Resolution ==
    [c \in ClassNames |->
        [n \in Range(ConfigNames) |-> ResolveConfig(c, n, GetDefaultArgs)]]

\* The settings parse_args passes to the parser's constructor: each resolved
\* on its own by _resolve_config against the constructor's defaults.
ResolvedSettings(arg_type) ==
    [n \in Range(ConfigNames) |-> Resolution[arg_type][n].value]

\* The first setting, in the order of the constructor call, whose resolution
\* raises; 0 if none does.
FirstUnresolved(arg_type) ==
    LET bad == {k \in DOMAIN ConfigNames :
                  Resolution[arg_type][ConfigNames[k]].kind = "raise"}
    IN IF bad = {} THEN 0 ELSE CHOOSE k \in bad : \A j \in bad : k <= j

\* parse_args from the constructed parser on: add_argument(), then
\* parser.parse_args(args), then arg_type().
ParseWithParser(arg_type, args, parser) ==
    IF AddArgument(parser, <<>>, <<>>).kind = "raise"
    THEN AddArgument(parser, <<>>, <<>>)
    ELSE IF ParserParseArgs(AddArgument(parser, <<>>, <<>>).value, args).kind # "return"
         THEN ParserParseArgs(AddArgument(parser, <<>>, <<>>).value, args)
         ELSE Returned(NewInstance(arg_type))

\* parse_args(arg_type, args, enable_sub_args): the outcome, and the settings
\* the parser was constructed with (<<>> when it was not constructed).
parse_args(arg_type, args, enable_sub_args) ==
    IF FirstUnresolved(arg_type) # 0
    THEN [out |-> Resolution[arg_type][ConfigNames[FirstUnresolved(arg_type)]],
          parser |-> <<>>]
    ELSE [out |-> ParseWithParser(arg_type, args,
                                  ArgumentParserInit(ResolvedSettings(arg_type))),
          parser |-> ResolvedSettings(arg_type)]

\* The argument vectors of the tests
ArgVectors ==
    {<<>>,
     <<"--test-arg">>,
     <<"--test-arg", "1">>,
     <<"--test-arg", "10">>,
     <<"--test-arg", "1.2">>,
     <<"--test-arg", "a">>,
     <<"--test-arg", "some string">>,
     <<"--test-arg", "10", "--test-arg", "20">>,
     <<"--test-arg", "10", "--test-arg", "10">>,
     <<"--test-arg", "10", "20">>,
     <<"--test-arg", "some string", "--test-arg", "other string">>,
     <<"--test-arg", "some string", "other string">>,
     <<"--alias-arg", "some string">>,
     <<"--help">>,
     <<"--command-arg", "1">>,
     <<"--command-arg", "1", "command1", "--subcommand1-arg", "1">>,
     <<"--command-arg", "1", "command2", "--subcommand2-arg", "1">>,
     <<"--command-arg", "1", "command1", "--subcommand2-arg", "1">>,
     <<"--command-arg", "1", "--subcommand1-arg", "1", "command1">>,
     <<"command1", "--subcommand1-arg", "1", "--command-arg", "1">>,
     <<"--test-arg", "some string", "--test-sub-arg", "some other string">>,
     <<"--test-arg", "some string", "--prefix1-test-sub-arg", "some other string">>}

\* The values of enable_sub_args: None, or a collection of field names
EnableSubArgs == {[none |-> TRUE, names |-> <<>>], [none |-> FALSE, names |-> <<"sub_args">>]}

\* ------------------------------------------------------------------------
\* Initial state and operations
\* ------------------------------------------------------------------------
NoCall == [op |-> "none", in |-> <<>>, out |-> Returned(PyNone)]
Call(op, in, out) == [op |-> op, in |-> in, out |-> out]

\* The interpreter has imported the package: no schema class is declared, no
\* class has the attribute _pydargparse_sub_args (models.AppArguments only
\* annotates it), no instance exists.
Init ==
    /\ declared = {}
    /\ descriptors = <<>>
    /\ subArgsAttr = <<>>
    /\ instances = <<>>
    /\ last = NoCall

\* Argument(**kw), called on its own
ConstructArgument ==
    \E kw \in ArgumentInputs :
        /\ last' = Call("Argument", kw, ArgumentInit(kw))
        /\ UNCHANGED <<declared, descriptors, subArgsAttr, instances>>

\* The <<class, field>> pairs of the Argument(...) objects the class bodies
\* of the group of c construct
GroupMetaFields(c) == UNION {{<<g, n>> : n \in MetaFieldNames(g)} : g \in Group(c)}

\* A test declares schema class c (and the classes that come with it): each
\* Argument(...) of a class body is constructed and given its name by
\* __set_name__; a constructor that raises aborts the class statement.
DeclareClass(c) ==
    /\ c \notin declared
    /\ Cardinality(declared) < MaxDeclared
    /\ LET made == [p \in GroupMetaFields(c) |-> ArgumentInit(Field(p[1], p[2]).kw)]
           failed == {p \in GroupMetaFields(c) : made[p].kind = "raise"}
       IN IF failed # {}
          THEN /\ last' = Call("class", [cls |-> c], made[CHOOSE p \in failed : TRUE])
               /\ UNCHANGED <<declared, descriptors>>
          ELSE /\ declared' = declared \cup {c}
               /\ descriptors' =
                    [p \in GroupMetaFields(c) |-> SetName(made[p].value, p[1], p[2])]
                        @@ descriptors
               /\ last' = Call("class", [cls |-> c], Returned(PyType(c)))
    /\ UNCHANGED <<subArgsAttr, instances>>

\* The test that declared c returns: the class and its descriptors are gone.
ForgetClass(c) ==
    /\ c \in declared
    /\ \A k \in DOMAIN instances : instances[k].cls \notin Group(c)
    /\ declared' = declared \ {c}
    /\ descriptors' = [p \in {q \in DOMAIN descriptors :
                                q[1] \in UNION {Group(d) : d \in declared \ {c}}}
                          |-> descriptors[p]]
    /\ last' = NoCall
    /\ UNCHANGED <<subArgsAttr, instances>>

\* arg_type(), the way parse_args materializes its result
Instantiate(c) ==
    /\ c \in DeclaredClasses
    /\ Len(instances) < MaxInstances
    /\ instances' = Append(instances, NewInstance(c))
    /\ last' = Call("new", [cls |-> c], Returned(NewInstance(c)))
    /\ UNCHANGED <<declared, descriptors, subArgsAttr>>

\* The caller drops its last instance.
DropInstance ==
    /\ instances # <<>>
    /\ instances' = SubSeq(instances, 1, Len(instances) - 1)
    /\ last' = NoCall
    /\ UNCHANGED <<declared, descriptors, subArgsAttr>>

\* The values a caller tries to assign to a field
WriteValues == {PyInt(1), PyStr("other string")}

\* instance.name, for a declared field
ReadField(k, name) ==
    /\ k \in DOMAIN instances
    /\ name \in FieldNames(instances[k].cls)
    /\ last' = Call("getattr", [inst |-> k, before |-> instances[k], name |-> name],
                    GetAttr(instances[k], name))
    /\ UNCHANGED <<declared, descriptors, subArgsAttr, instances>>

\* instance.name = value, for a declared field
WriteField(k, name, value) ==
    /\ k \in DOMAIN instances
    /\ name \in FieldNames(instances[k].cls)
    /\ LET res == SetAttr(instances[k], name, value) IN
       /\ instances' = [instances EXCEPT ![k] = res.inst]
       /\ last' = Call("setattr",
                       [inst |-> k, before |-> instances[k], name |-> name,
                        value |-> value],
                       res.out)
    /\ UNCHANGED <<declared, descriptors, subArgsAttr>>

\* instance.pydargparse_get_sub_args(sub_args_type)
GetSubArgs(k, sub_args_type) ==
    /\ k \in DOMAIN instances
    /\ sub_args_type \in DeclaredClasses
    /\ last' = Call("pydargparse_get_sub_args",
                    [inst |-> k, before |-> instances[k],
                     sub_args_type |-> sub_args_type],
                    pydargparse_get_sub_args(instances[k], sub_args_type))
    /\ UNCHANGED <<declared, descriptors, subArgsAttr, instances>>

\* The prefixes a caller registers a sub-schema with
Prefixes == {PyNone, PyStr("prefix1")}

\* register_sub_args(args, sub_args, prefix)
RegisterSubArgs(args, sub_args, prefix) ==
    /\ args \in DeclaredClasses
    /\ sub_args \in DeclaredClasses
    /\ LET res == register_sub_args(args, sub_args, prefix) IN
       /\ subArgsAttr' = res.attrs
       /\ last' = Call("register_sub_args",
                       [args |-> args, sub_args |-> sub_args, prefix |-> prefix,
                        before |-> subArgsAttr],
                       res.out)
    /\ UNCHANGED <<declared, descriptors, instances>>

\* The field lists a validator is bound to: one name, or a list of names
FieldSpecs ==
    {PyStr("test_arg"),
     [t |-> "list", items |-> <<"test_arg", "test_arg1">>]}

\* The values a validator is called with
ValidatedValues == {PyInt(1), PyFloat(10), PyStr("a")}

\* @post_validator(fields) applied to function f
DecoratePostValidator(fields, f) ==
    /\ last' = Call("post_validator", [fields |-> fields, external |-> f],
                    Returned(post_validator(fields, f)))
    /\ UNCHANGED <<declared, descriptors, subArgsAttr, instances>>

\* validator.validate(value), on the validator just made
CallValidate(value) ==
    /\ last.op = "post_validator"
    /\ last' = Call("validate", [validator |-> last.out.value, value |-> value],
                    validate(last.out.value, value))
    /\ UNCHANGED <<declared, descriptors, subArgsAttr, instances>>

\* parse_args(arg_type, args, enable_sub_args)
ParseArgs(arg_type, args, enable_sub_args) ==
    /\ arg_type \in declared
    /\ LET res == parse_args(arg_type, args, enable_sub_args) IN
       last' = Call("parse_args",
                    [arg_type |-> arg_type, args |-> args,
                     enable_sub_args |-> enable_sub_args, parser |-> res.parser],
                    res.out)
    /\ UNCHANGED <<declared, descriptors, subArgsAttr, instances>>

Next ==
    \/ \E c \in TopLevel \ declared : DeclareClass(c)
    \/ \E c \in declared : ForgetClass(c)
    \/ \E c \in DeclaredClasses : Instantiate(c)
    \/ DropInstance
    \/ \E k \in DOMAIN instances : \E name \in FieldNames(instances[k].cls) :
          ReadField(k, name)
    \/ \E k \in DOMAIN instances : \E name \in FieldNames(instances[k].cls) :
          \E value \in WriteValues : WriteField(k, name, value)
    \/ \E k \in DOMAIN instances : \E t \in DeclaredClasses : GetSubArgs(k, t)
    \/ \E a \in DeclaredClasses, b \in DeclaredClasses, prefix \in Prefixes :
          RegisterSubArgs(a, b, prefix)
    \/ \E fields \in FieldSpecs, f \in FuncNames : DecoratePostValidator(fields, f)
    \/ \E value \in ValidatedValues : CallValidate(value)
    \/ \E c \in declared, args \in ArgVectors, e \in EnableSubArgs : ParseArgs(c, args, e)

Spec == Init /\ [][Next]_vars

\* Argument(...) alone, over all its inputs
NextArgument == ConstructArgument

SpecArgument == Init /\ [][NextArgument]_vars

\* parse_args alone, on every declared schema class and every vector
NextParse ==
    \/ \E c \in TopLevel \ declared : DeclareClass(c)
    \/ \E c \in declared : ForgetClass(c)
    \/ \E c \in declared, args \in ArgVectors, e \in EnableSubArgs : ParseArgs(c, args, e)

SpecParse == Init /\ [][NextParse]_vars

\* ========================================================================
\* Properties
\* ========================================================================

\* The declared field `name` of the instance a call returned, as the caller
\* reads it; the call's own outcome if it returned no instance.
ParsedField(out, name) ==
    IF out.kind = "return" THEN GetAttr(out.value, name) ELSE out

\* The failure protocol of the external parser: exit status 2 after an
\* error of kind `error` that names `flag` on stderr
ExitsWith(out, error, flag) ==
    out.kind = "exit" /\ out.code = 2 /\ out.error = error
        /\ flag \in Range(out.names)

\* C1: every call of parse_args either returns an instance of arg_type or
\* ends through the external parser's failure protocol (SystemExit); it ends
\* in no other exception.
C1_ParseReturnsOrExits ==
    last.op = "parse_args" =>
        \/ last.out.kind = "return" /\ last.out.value.cls = last.in.arg_type
        \/ last.out.kind = "exit"

\* C2: Argument(...) raises exactly when default and default_factory are both
\* given, or required is False and a default or a default_factory is given,
\* or custom_type_requires_list is true and custom_type is absent; a default
\* is given when it is not the Undefined sentinel, so default=None is one.
ArgumentConflict(kw) ==
    \/ kw.default # Undefined /\ kw.default_factory # PyNone
    \/ kw.required = PyFalse /\ (kw.default # Undefined \/ kw.default_factory # PyNone)
    \/ kw.custom_type_requires_list = PyTrue /\ kw.custom_type = PyNone

C3_FieldWritesFail ==
    last.op = "setattr" =>
        /\ last.out.kind = "raise"
        /\ instances[last.in.inst] = last.in.before
        /\ GetAttr(instances[last.in.inst], last.in.name)
             = GetAttr(last.in.before, last.in.name)

\* C4: pydargparse_get_sub_args(T) returns the sub-instance when T is in the
\* instance's sub-schema mapping and otherwise raises the ValueError naming T
\* and the parent class, never another error; the instance is unchanged.
C4_SubArgsLookup ==
    last.op = "pydargparse_get_sub_args" =>
        LET inst == last.in.before
            t == last.in.sub_args_type
            known == /\ "_pydargparse_sub_args" \in DOMAIN inst.dict
                     /\ t \in DOMAIN inst.dict["_pydargparse_sub_args"]
        IN /\ instances[last.in.inst] = inst
           /\ IF known
              THEN last.out = Returned(inst.dict["_pydargparse_sub_args"][t])
              ELSE last.out =
                     Raised("ValueError",
                            "Sub arguments type " \o ClassRepr(t)
                                \o " wasn't registered in " \o ClassRepr(inst.cls))

\* The links resolved for class q from the class attributes attrs
Links(attrs, q) == IF q \in DOMAIN attrs THEN attrs[q] ELSE <<>>

\* C5: every register_sub_args(parent, child, prefix) on declared schema
\* classes succeeds and appends the link (child, prefix) to the links of
\* parent, leaving the links of every other class as they were.
C5_RegistryAppends ==
    last.op = "register_sub_args" =>
        /\ last.out.kind = "return"
        /\ Links(subArgsAttr, last.in.args) =
             Append(Links(last.in.before, last.in.args),
                    SubArgsDefinition(last.in.sub_args, last.in.prefix))
        /\ \A q \in AllClasses \ {last.in.args} :
              Links(subArgsAttr, q) = Links(last.in.before, q)

\* ------------------------------------------------------------------------
\* What the claims about parsing expect of a vector
\* ------------------------------------------------------------------------
\* The value a token converts to under the builtin scalar types: int(token),
\* float(token), str(token); no entry where the conversion raises.
Converted(type, token) ==
    CASE type = "str" -> {PyStr(token)}
      [] type = "int" /\ token = "1" -> {PyInt(1)}
      [] type = "int" /\ token = "10" -> {PyInt(10)}
      [] type = "int" /\ token = "20" -> {PyInt(20)}
      [] type = "float" /\ token = "1" -> {PyFloat(10)}
      [] type = "float" /\ token = "10" -> {PyFloat(100)}
      [] type = "float" /\ token = "20" -> {PyFloat(200)}
      [] type = "float" /\ token = "1.2" -> {PyFloat(12)}
      [] OTHER -> {}

\* A Python list and a Python set of values
PyList(items) == [t |-> "list", items |-> items]
PySet(items) == [t |-> "set", items |-> items]

\* The only field of a one-field schema
OnlyField(c) == ClassDecl(c).fields[1]
OneFieldSchemas == {c \in TopLevel : Len(ClassDecl(c).fields) = 1}

\* The flag of the one-field schemas of the tests that declare no alias
TestFlag == "--test-arg"

RequiredError == "the following arguments are required"
UnrecognizedError == "unrecognized arguments"

\* C6: for a one-field schema "test_arg: T" with T one of int, float, str
\* and a token that is the text of a value v of T, parsing
\* ["--test-arg", token] returns an instance whose test_arg is v; for bool
\* ["--test-arg"] gives True and [] gives False.
C6_ScalarRoundTrip ==
    (/\ last.op = "parse_args"
     /\ last.in.arg_type \in {"ArgsInt", "ArgsFloat", "ArgsStr", "ArgsBool"}) =>
        LET type == OnlyField(last.in.arg_type).ann.elem
            args == last.in.args
        IN /\ (/\ type # "bool"
               /\ Len(args) = 2
               /\ args[1] = TestFlag
               /\ Converted(type, args[2]) # {}) =>
                  ParsedField(last.out, "test_arg") \in
                      {Returned(v) : v \in Converted(type, args[2])}
           /\ (type = "bool" /\ args = <<TestFlag>>) =>
                  ParsedField(last.out, "test_arg") = Returned(PyTrue)
           /\ (type = "bool" /\ args = <<>>) =>
                  ParsedField(last.out, "test_arg") = Returned(PyFalse)

\* What C7 says of a field: it is required when it has no default, no
\* default factory, is no container and is not Optional, or when it declares
\* required=True.
FieldRequired(f) ==
    \/ /\ f.kw.default = Undefined
       /\ f.kw.default_factory = PyNone
       /\ f.ann.shape = "scalar"
       /\ ~f.ann.optional
    \/ f.kw.required = PyTrue

\* The value C7 gives an absent field that is not required: the declared
\* default, the default factory's result, the empty container, or None.
AbsentValue(f) ==
    IF f.kw.default # Undefined THEN f.kw.default
    ELSE IF f.kw.default_factory # PyNone THEN PyList(<<>>)
    ELSE IF f.ann.shape = "list" THEN PyList(<<>>)
    ELSE IF f.ann.shape = "set" THEN PySet({})
    ELSE PyNone

\* C7: with the flag of a field absent, parse_args fails with "the following
\* arguments are required" iff the field is required in the sense above, and
\* otherwise returns an instance whose field is the default, the factory's
\* result, the empty container or None; a flag that is present overrides the
\* default.
C7_RequirednessResolution ==
    (/\ last.op = "parse_args"
     /\ last.in.arg_type \in OneFieldSchemas
     /\ OnlyField(last.in.arg_type).kw.alias = PyNone) =>
        LET f == OnlyField(last.in.arg_type) IN
        /\ last.in.args = <<>> =>
              IF FieldRequired(f)
              THEN ExitsWith(last.out, RequiredError, TestFlag)
              ELSE ParsedField(last.out, f.name) = Returned(AbsentValue(f))
        /\ (/\ last.in.arg_type = "ArgsDefaultVal"
            /\ last.in.args = <<TestFlag, "a">>) =>
              ParsedField(last.out, f.name) = Returned(PyStr("a"))

\* The element tokens of a vector that gives one container field in the
\* style of the field: the flag before every element, or the flag once
\* before all elements. <<>> when the vector has another form.
RECURSIVE EveryOther(_)
EveryOther(args) ==
    IF Len(args) < 2 THEN <<>>
    ELSE <<args[2]>> \o EveryOther(SubSeq(args, 3, Len(args)))

IsRepeatKeyVector(args) ==
    /\ Len(args) % 2 = 0
    /\ \A k \in DOMAIN args : (k % 2 = 1) <=> (args[k] = TestFlag)

IsRepeatValueVector(args) ==
    /\ Len(args) >= 1
    /\ \A k \in DOMAIN args : (k = 1) <=> (args[k] = TestFlag)

\* C8: for a list or set field in either spelling and either list style,
\* parsing N element tokens gives the list of the N converted elements in
\* order, or the set of them; no element gives the empty container, or a
\* "required" error when the field declares required=True.
C8_ContainerFields ==
    (/\ last.op = "parse_args"
     /\ last.in.arg_type \in OneFieldSchemas
     /\ OnlyField(last.in.arg_type).ann.shape \in {"list", "set"}
     /\ OnlyField(last.in.arg_type).ann.elem \in {"int", "str"}
     /\ OnlyField(last.in.arg_type).kw.default_factory = PyNone) =>
        LET f == OnlyField(last.in.arg_type)
            args == last.in.args
            tokens == IF f.kw.list_style = REPEAT_KEY
                      THEN EveryOther(args) ELSE Tail(args)
            wellFormed == /\ args # <<>>
                          /\ IF f.kw.list_style = REPEAT_KEY
                             THEN IsRepeatKeyVector(args)
                             ELSE IsRepeatValueVector(args)
                          /\ \A k \in DOMAIN tokens :
                                Converted(f.ann.elem, tokens[k]) # {}
            elems == [k \in DOMAIN tokens |->
                        CHOOSE v \in Converted(f.ann.elem, tokens[k]) : TRUE]
        IN /\ wellFormed =>
                ParsedField(last.out, f.name) =
                    Returned(IF f.ann.shape = "list" THEN PyList(elems)
                             ELSE PySet(Range(elems)))
           /\ args = <<>> =>
                IF f.kw.required = PyTrue
                THEN ExitsWith(last.out, RequiredError, TestFlag)
                ELSE ParsedField(last.out, f.name) =
                        Returned(IF f.ann.shape = "list" THEN PyList(<<>>)
                                 ELSE PySet({}))

\* The post validator bound to the only field of a one-field schema: the
\* function of Argument(post_validator=...) or of the @post_validator method
\* that names the field; "" if the field has none.
BoundValidator(c) ==
    IF OnlyField(c).kw.post_validator # PyNone
    THEN OnlyField(c).kw.post_validator.s
    ELSE IF \E k \in DOMAIN ClassDecl(c).validators :
               ClassDecl(c).validators[k].fields = PyStr(OnlyField(c).name)
         THEN ClassDecl(c).validators[1].func
         ELSE ""

\* C9: a field's post validator is applied to the parsed value before the
\* instance is returned: the value it returns is the value stored (int field,
\* x -> x + 1, input "1" stores 2); if it raises, parse_args fails with an
\* error naming the flag and carrying the validator's message.
C9_PostValidation ==
    (/\ last.op = "parse_args"
     /\ last.in.arg_type \in OneFieldSchemas
     /\ BoundValidator(last.in.arg_type) # ""
     /\ Len(last.in.args) = 2
     /\ last.in.args[1] = TestFlag
     /\ Converted(OnlyField(last.in.arg_type).ann.elem, last.in.args[2]) # {}) =>
        LET f == OnlyField(last.in.arg_type)
            parsed == CHOOSE v \in Converted(f.ann.elem, last.in.args[2]) : TRUE
            changes == BoundValidator(last.in.arg_type)
                          \in {"custom_change_validator", "validate_change"}
        IN IF changes
           THEN ParsedField(last.out, f.name) =
                    Returned([parsed EXCEPT !.i = IF parsed.t = "float"
                                                  THEN @ + 10 ELSE @ + 1])
           ELSE ExitsWith(last.out, "Value " \o Repr(parsed) \o " is wrong",
                          TestFlag)

\* C10: with a union of command variants, flags of the parent come before
\* the command token and flags after it belong to the selected variant; a
\* sibling's flag or a parent flag after the token, or a command flag before
\* it, is an "unrecognized arguments" error naming the flag. A successful
\* parse stores the instance of the selected variant; an omitted command
\* gives None when the union is Optional and a "required" error otherwise.
C10_CommandBoundary ==
    (/\ last.op = "parse_args"
     /\ last.in.arg_type \in {"ArgsCmdOptional", "ArgsCmdRequired"}) =>
        LET args == last.in.args
            sub == ParsedField(last.out, "subcommand")
            selected(variant) ==
                /\ ParsedField(last.out, "command_arg") = Returned(PyInt(1))
                /\ sub.kind = "return"
                /\ sub.value.cls = variant
        IN /\ args = <<"--command-arg", "1", "command1", "--subcommand1-arg", "1">>
                => selected("SubCommand1")
           /\ args = <<"--command-arg", "1", "command2", "--subcommand2-arg", "1">>
                => selected("SubCommand2")
           /\ args = <<"--command-arg", "1", "command1", "--subcommand2-arg", "1">>
                => ExitsWith(last.out, UnrecognizedError, "--subcommand2-arg")
           /\ args = <<"--command-arg", "1", "--subcommand1-arg", "1", "command1">>
                => ExitsWith(last.out, UnrecognizedError, "--subcommand1-arg")
           /\ args = <<"command1", "--subcommand1-arg", "1", "--command-arg", "1">>
                => ExitsWith(last.out, UnrecognizedError, "--command-arg")
           /\ args = <<"--command-arg", "1">> =>
                IF last.in.arg_type = "ArgsCmdOptional"
                THEN sub = Returned(PyNone)
                ELSE ExitsWith(last.out, RequiredError, "subcommand")

\* The field name or alias with its underscores rewritten to hyphens, for
\* the names of the test schemas
Hyphenated(name) ==
    CASE name = "test_arg" -> "test-arg"
      [] name = "alias_arg" -> "alias-arg"
      [] name = "test_sub_arg" -> "test-sub-arg"
      [] name = "command_arg" -> "command-arg"
      [] OTHER -> name

\* The flag C11 gives a field: "--", the registered prefix and a hyphen if
\* there is one, then the alias if declared, else the field name, hyphenated.
FlagOf(f, prefix) ==
    "--" \o (IF prefix = PyNone THEN "" ELSE prefix.s \o "-")
         \o Hyphenated(IF f.kw.alias # PyNone THEN f.kw.alias.s ELSE f.name)

\* C11: the flag accepted for a field is "--" followed by its alias if
\* declared, else its name, with underscores as hyphens, after the prefix of
\* its sub-schema if one is registered; no other spelling is accepted. With
\* alias="alias_arg" on test_arg, "--alias-arg" is accepted and "--test-arg"
\* is unrecognized; a sub-schema registered with prefix "prefix1" takes its
\* field test_sub_arg as "--prefix1-test-sub-arg" only.
C11_FlagNaming ==
    last.op = "parse_args" =>
        LET c == last.in.arg_type
            args == last.in.args
        IN /\ (/\ c \in {"ArgsStr", "ArgsAlias"}
               /\ Len(args) = 2
               /\ args[2] = "some string") =>
                  IF args[1] = FlagOf(OnlyField(c), PyNone)
                  THEN ParsedField(last.out, "test_arg")
                          = Returned(PyStr("some string"))
                  ELSE ExitsWith(last.out, UnrecognizedError, args[1])
           /\ (/\ c = "ArgsImperative"
               /\ Links(subArgsAttr, c)
                    = <<SubArgsDefinition("SubArgs", PyStr("prefix1"))>>
               /\ Len(args) = 4
               /\ args[1] = "--test-arg") =>
                  IF args[3] = FlagOf(OnlyField("SubArgs"), PyStr("prefix1"))
                  THEN last.out.kind = "return"
                  ELSE ExitsWith(last.out, UnrecognizedError, args[3])

\* C12: each of the ten parser-level settings passed to the external parser
\* is the attribute of that name of the schema's Config block when the
\* schema has a Config block that defines it, and otherwise the default of
\* the parser's constructor; each is resolved on its own, and the resolution
\* does not fail for a schema without a Config block or with a partial one.
C12_ConfigResolution ==
    last.op = "parse_args" =>
        LET config == ClassDecl(last.in.arg_type).config IN
        /\ last.in.parser # <<>>
        /\ DOMAIN last.in.parser = Range(ConfigNames)
        /\ \A n \in Range(ConfigNames) :
              last.in.parser[n] =
                  IF config.has /\ n \in DOMAIN config.attrs
                  THEN config.attrs[n]
                  ELSE GetDefaultArgs[n]

\* C12 witness: a schema whose Config block defines prog and description
\* only was parsed: prog came from the block, add_help from the constructor.
C12_PartialConfigResolved ==
    /\ last.op = "parse_args"
    /\ last.in.arg_type = "ArgsConfigProg"
    /\ last.in.parser # <<>>
    /\ last.in.parser["prog"] = PyStr("app")
    /\ last.in.parser["add_help"] = PyTrue


\* The schemas of the tests whose only field is annotated list[CustomType]
\* and declared with Argument(custom_type_requires_list=True) and no
\* custom_type
CustomListSchemas ==
    {c \in OneFieldSchemas :
        /\ OnlyField(c).ann.shape = "list"
        /\ OnlyField(c).ann.elem = "CustomType"
        /\ OnlyField(c).kw.custom_type_requires_list = PyTrue
        /\ OnlyField(c).kw.custom_type = PyNone}

\* CustomType(token) of the tests: the object that holds the token
CustomValue(token) == [t |-> "CustomType", i |-> 0, s |-> token]

\* C13: a field annotated list[CustomType] and declared with
\* Argument(custom_type_requires_list=True) and no custom_type is a valid
\* schema: the class statement is accepted, and parsing N tokens in the
\* list style of the field gives the list of the N CustomType objects, no
\* token gives [], or a "required" error when the field declares
\* required=True.
C13_CustomListSchema ==
    /\ (last.op = "class" /\ last.in.cls \in CustomListSchemas) =>
          last.out = Returned(PyType(last.in.cls))
    /\ (last.op = "parse_args" /\ last.in.arg_type \in CustomListSchemas) =>
          LET f == OnlyField(last.in.arg_type)
              args == last.in.args
              tokens == IF f.kw.list_style = REPEAT_KEY
                        THEN EveryOther(args) ELSE Tail(args)
          IN /\ (/\ args # <<>>
                 /\ IF f.kw.list_style = REPEAT_KEY
                    THEN IsRepeatKeyVector(args)
                    ELSE IsRepeatValueVector(args)) =>
                   ParsedField(last.out, f.name) =
                       Returned(PyList([k \in DOMAIN tokens |-> CustomValue(tokens[k])]))
             /\ args = <<>> =>
                   IF f.kw.required = PyTrue
                   THEN ExitsWith(last.out, RequiredError, TestFlag)
                   ELSE ParsedField(last.out, f.name) = Returned(PyList(<<>>))

====
